---- MODULE Spec2Model ----
(***************************************************************************)
(* Portfolio (src/pytradersan/portfolio.py): the transaction ledger, the   *)
(* lot processor, the class-wide price cache and the position snapshot.    *)
(*                                                                         *)
(* Units.  Calendar dates are day numbers.  Share quantities are counted   *)
(* in thousandths of a share (MILLI), prices and cash amounts in whole     *)
(* currency units, ratios in ten-thousandths (RATIO).  Every input of the  *)
(* model is an exact multiple of its unit, so sums and products are exact  *)
(* integers and round(x, n) is computed on the exact value.                *)
(***************************************************************************)
EXTENDS Integers, Sequences, FiniteSets, TLC

VARIABLES portfolio_price_data, pf, today, ret

vars == <<portfolio_price_data, pf, today, ret>>

\* ------------------------------------------------------------------ bounds
\* Longest ledger combine() is followed to.
MaxLedger == 2
\* Number of days the clock advances past FirstToday.
MaxTicks == 1

\* --------------------------------------------------------------- constants
DAYS_IN_A_YEAR == 365
\* get_upcoming_ltcg_lots(days=7)
DefaultDays == 7
\* Units of a share, of a currency unit and of a ratio.
MILLI == 1000
UNIT == 1
RATIO == 10000

Slots == {"p", "q"}
Fields == {"Close", "Volume"}

\* as_of_date=None
NoDate == 0 - 1

\* ------------------------------------------------------------------ floats
\* A float64 cell: a number (in the unit of its column), NaN or +-inf.
Num(v) == [k |-> "num", v |-> v]
NaN == [k |-> "nan", v |-> 0]
Inf(s) == [k |-> "inf", v |-> s]
isna(x) == x.k = "nan"

Sign(n) == IF n > 0 THEN 1 ELSE IF n < 0 THEN 0 - 1 ELSE 0
Abs(n) == IF n < 0 THEN 0 - n ELSE n
Min(a, b) == IF a <= b THEN a ELSE b

FNeg(x) == IF x.k = "nan" THEN NaN ELSE [k |-> x.k, v |-> 0 - x.v]

\* x * y for a finite x (a share count) and a price y; scale-preserving
\* because prices are whole units.
FMul(x, y) ==
  IF x.k = "nan" \/ y.k = "nan" THEN NaN
  ELSE IF x.k = "num" /\ y.k = "num" THEN Num(x.v * y.v)
  ELSE IF x.v = 0 \/ y.v = 0 THEN NaN
  ELSE Inf(Sign(x.v) * Sign(y.v))

\* x + y, both in the same unit.
FAdd(x, y) ==
  IF x.k = "nan" \/ y.k = "nan" THEN NaN
  ELSE IF x.k = "num" /\ y.k = "num" THEN Num(x.v + y.v)
  ELSE IF x.k = "inf" /\ y.k = "inf" THEN (IF x.v = y.v THEN x ELSE NaN)
  ELSE IF x.k = "inf" THEN x ELSE y

\* Half-even rounding of n / d to an integer, d > 0.
RoundDiv(n, d) ==
  LET q == n \div d
      r == n % d
  IN IF 2 * r < d THEN q
     ELSE IF 2 * r > d THEN q + 1
     ELSE IF q % 2 = 0 THEN q ELSE q + 1

\* Half-even rounding of n * m / d, d > 0, without forming n * m.
RoundMulDiv(n, m, d) == (n \div d) * m + RoundDiv((n % d) * m, d)

\* x / y as a float counted in ten-thousandths and rounded to 4 decimals;
\* x counts 1/nscale, y counts 1/dscale (nscale divides RATIO * dscale).
\* Division by zero follows float64: 0/0 is NaN, x/0 is +-inf.
FDiv4(x, nscale, y, dscale) ==
  IF x.k = "nan" \/ y.k = "nan" THEN NaN
  ELSE IF y.k = "inf" THEN (IF x.k = "inf" THEN NaN ELSE Num(0))
  ELSE IF y.v = 0 THEN (IF x.v = 0 THEN NaN ELSE Inf(Sign(x.v)))
  ELSE IF x.k = "inf" THEN Inf(x.v * Sign(y.v))
  ELSE Num(RoundMulDiv(x.v * Sign(y.v), (RATIO * dscale) \div nscale, Abs(y.v)))

Pow10(n) == IF n = 0 THEN 1 ELSE IF n = 1 THEN 10 ELSE IF n = 2 THEN 100
            ELSE IF n = 3 THEN 1000 ELSE 10000

\* round(x, digits) of a float counted in 1/scale.
round(x, scale, digits) ==
  IF x.k # "num" THEN x
  ELSE IF scale <= Pow10(digits) THEN x
  ELSE LET step == scale \div Pow10(digits)
       IN Num(step * RoundDiv(x.v, step))

\* ------------------------------------------------------------ price tables
\* A DataFrame of prices: index `rows` (dates, ascending), columns `cols`
\* ((Price, Ticker) pairs, in lexicographic order), cells `val`.
\* portfolio_price_data = None is NoTable.
NoTable == [present |-> FALSE, rows |-> {}, cols |-> {}, val |-> <<>>]

Table(rows, cols, Cell(_, _)) ==
  [present |-> TRUE, rows |-> rows, cols |-> cols,
   val |-> [rc \in rows \X cols |-> Cell(rc[1], rc[2])]]

Tickers(t) == {c[2] : c \in t.cols}

SymRank(s) == IF s = "ABC" THEN 1 ELSE 2
FieldRank(f) == IF f = "Close" THEN 1 ELSE 2
\* The order of the (Price, Ticker) column index.
ColLess(c1, c2) ==
  \/ FieldRank(c1[1]) < FieldRank(c2[1])
  \/ FieldRank(c1[1]) = FieldRank(c2[1]) /\ SymRank(c1[2]) < SymRank(c2[2])

MaxOf(S) == CHOOSE x \in S : \A y \in S : y <= x

\* The price source (yfinance): what the market has recorded, per day.
\* XYZ has no record on day 401; its close and volume do not move.
MarketDays == {399, 400, 401}
HasData(d, s) == d \in MarketDays /\ (s = "XYZ" => d # 401)
MarketCell(d, c) ==
  IF ~HasData(d, c[2]) THEN NaN
  ELSE IF c[2] = "ABC"
       THEN (IF c[1] = "Close"
             THEN Num(IF d = 399 THEN 118 ELSE IF d = 400 THEN 120 ELSE 125)
             ELSE Num(d - 300))
       ELSE (IF c[1] = "Close" THEN Num(50) ELSE Num(7))

\* pd.Timestamp.now(), as a day number, when the model starts: the day
\* before the market's last record.
FirstToday == MaxOf(MarketDays) - 1

\* yf.download(tickers, start, end): the rows lo <= d < hi on which some
\* requested ticker has a record; a ticker without a record on a row is NaN.
yf_download(symbols, lo, hi) ==
  Table({d \in MarketDays : lo <= d /\ d < hi /\ \E s \in symbols : HasData(d, s)},
        Fields \X symbols, MarketCell)

\* self.combine_first(other): the union of both indexes, self's cell unless
\* it is missing, then other's.
combine_first(a, b) ==
  LET rows == a.rows \cup b.rows
      cols == a.cols \cup b.cols
      Cell(d, c) ==
        IF <<d, c>> \in DOMAIN a.val /\ ~isna(a.val[<<d, c>>]) THEN a.val[<<d, c>>]
        ELSE IF <<d, c>> \in DOMAIN b.val THEN b.val[<<d, c>>]
        ELSE NaN
  IN Table(rows, cols, Cell)

\* df.T.drop_duplicates().T.drop_duplicates(): first the columns equal to
\* an earlier column are dropped, then the rows equal to an earlier row
\* (keep="first"; NaN equals NaN).
drop_duplicates(t) ==
  LET cols == {c \in t.cols :
                 ~\E c2 \in t.cols :
                    ColLess(c2, c) /\ \A d \in t.rows : t.val[<<d, c2>>] = t.val[<<d, c>>]}
      rows == {d \in t.rows :
                 ~\E d2 \in t.rows :
                    d2 < d /\ \A c \in cols : t.val[<<d2, c>>] = t.val[<<d, c>>]}
      Cell(d, c) == t.val[<<d, c>>]
  IN Table(rows, cols, Cell)

\* ----------------------------------------------------------- lot processor
\* A plausible slip: the comparison taken as >=.
ltcg_flag_ge(holding_period_days) ==
  IF holding_period_days >= DAYS_IN_A_YEAR THEN 1 ELSE 0

\* (holding_period_days > constants.DAYS_IN_A_YEAR).astype(int)
ltcg_flag(holding_period_days) ==
  IF holding_period_days > DAYS_IN_A_YEAR THEN 1 ELSE 0

\* One row of self._trades after _process_trades.  (account and action are
\* carried by the source but read by none of the computations.)
Derived(t, as_of_date) ==
  LET hp == as_of_date - t.date
      flag == ltcg_flag(hp)
  IN [date |-> t.date, symbol |-> t.symbol, quantity |-> t.quantity,
      price |-> t.price, amount |-> t.amount,
      holding_period_days |-> hp,
      amount_holding_period_days |-> t.amount * hp,
      ltcg_flag |-> flag,
      ltcg_shares |-> flag * t.quantity,
      cum_quantity |-> 0,
      ltcg_cost |-> flag * t.quantity * t.price]

\* sort_values(by=["symbol", "date"]): a stable sort on the two keys.
KeyLeq(a, b) ==
  \/ SymRank(a.symbol) < SymRank(b.symbol)
  \/ a.symbol = b.symbol /\ a.date <= b.date

InsertSorted(sorted, t) ==
  LET n == Cardinality({i \in 1..Len(sorted) : KeyLeq(sorted[i], t)})
  IN SubSeq(sorted, 1, n) \o <<t>> \o SubSeq(sorted, n + 1, Len(sorted))

RECURSIVE sort_values(_)
sort_values(trades) ==
  IF trades = <<>> THEN <<>>
  ELSE InsertSorted(sort_values(SubSeq(trades, 1, Len(trades) - 1)),
                    trades[Len(trades)])

RECURSIVE SumSeq(_)
SumSeq(xs) == IF xs = <<>> THEN 0 ELSE xs[1] + SumSeq(Tail(xs))

\* The values of column `col` (a field name) over the rows of `symbol`.
Column(trades, symbol, col) ==
  LET rows == SelectSeq(trades, LAMBDA t : t.symbol = symbol)
  IN [i \in 1..Len(rows) |-> rows[i][col]]

\* groupby("symbol")["quantity"].cumsum()
cumsum(trades) ==
  [i \in 1..Len(trades) |->
     [trades[i] EXCEPT !.cum_quantity =
        SumSeq(Column(SubSeq(trades, 1, i), trades[i].symbol, "quantity"))]]

\* Portfolio._process_trades
process_trades(trades, as_of_date) ==
  LET derived == [i \in 1..Len(trades) |-> Derived(trades[i], as_of_date)]
      sorted == cumsum(sort_values(derived))
  IN [trades |-> sorted,
      ltcg_lots |-> SelectSeq(sorted, LAMBDA t : t.ltcg_flag = 1),
      stcg_lots |-> SelectSeq(sorted, LAMBDA t : t.ltcg_flag = 0),
      symbols |-> {sorted[i].symbol : i \in 1..Len(sorted)}]

\* -------------------------------------------------------------- price cache
\* Portfolio._download_price_data: period="max" is the whole history up to
\* and including `now`; start/end is the half-open range [start, end).
download_price_data(symbols, start, end, now) ==
  IF start = NoDate THEN yf_download(symbols, 0, now + 1)
  ELSE yf_download(symbols, start, end)

\* Portfolio._get_download_params: (missing_symbols, max_available_date).
get_download_params(cache, symbols) ==
  IF ~cache.present THEN [missing |-> symbols, max_available_date |-> NoDate]
  ELSE LET max_available_date == MaxOf(cache.rows)
           additional == {c[2] : c \in {x \in cache.cols :
                                          isna(cache.val[<<max_available_date, x>>])}}
       IN [missing |-> (symbols \ Tickers(cache)) \cup additional,
           max_available_date |-> max_available_date]

\* Portfolio.update_price_data on the class-wide cache.  The k-th download
\* of the call succeeds iff k <= okFetches (the price source may become
\* unreachable).  The result is the error raised ("" for none) and the
\* cache as the call leaves it.
update_price_data(cache, symbols, now, okFetches) ==
  LET params == get_download_params(cache, symbols)
      first == params.missing # {}
      new_symbols_price_data == download_price_data(params.missing, NoDate, NoDate, now)
      cache1 == IF ~first THEN cache
                ELSE IF ~cache.present THEN new_symbols_price_data
                ELSE combine_first(cache, new_symbols_price_data)
      second == params.max_available_date < now
      data_for_missing_dates ==
        download_price_data(Tickers(cache1), params.max_available_date, now, now)
      cache2 == IF second THEN combine_first(cache1, data_for_missing_dates) ELSE cache1
  IN IF first /\ okFetches < 1 THEN [err |-> "FetchError", cache |-> cache]
     ELSE IF params.max_available_date = NoDate
          THEN [err |-> "AttributeError", cache |-> cache1]
     ELSE IF second /\ okFetches < (IF first THEN 2 ELSE 1)
          THEN [err |-> "FetchError", cache |-> cache1]
     ELSE [err |-> "", cache |-> drop_duplicates(cache2)]

\* Portfolio._assign_price_data: self.current_prices, the Close row of the
\* held symbols on the last cached date <= as_of_date.
assign_price_data(cache, symbols, as_of_date) ==
  LET tickers == {sym \in symbols : <<"Close", sym>> \in cache.cols}
      rows == {d \in cache.rows : d <= as_of_date}
  IN IF ~cache.present \/ symbols = {}
     THEN [err |-> "ValueError", current_prices |-> <<>>]
     ELSE IF rows = {} THEN [err |-> "KeyError", current_prices |-> <<>>]
     ELSE [err |-> "",
           current_prices |->
             [sym \in tickers |-> cache.val[<<MaxOf(rows), <<"Close", sym>>>>]]]

\* ---------------------------------------------------------------- snapshot
\* The unit each column of self._positions is counted in.
Scale(col) ==
  IF col \in {"num_shares", "ltcg_shares", "ltcg_cost", "market_value", "gain"}
  THEN MILLI
  ELSE IF col \in {"gain_perc", "wtd_avg_holding_period_days"} THEN RATIO
  ELSE UNIT

PositionCols == {"num_shares", "cost_basis", "wtd_holding_days", "ltcg_shares",
                 "ltcg_cost", "current_price", "market_value", "gain",
                 "gain_perc", "wtd_avg_holding_period_days"}

\* applymap(lambda x: round(x, digits))
applymap_round(row, digits) ==
  [col \in PositionCols |-> round(row[col], Scale(col), digits)]

\* A plausible slip: current_price taken for both factors.
market_value_squared(num_shares, current_price) == FMul(current_price, current_price)

\* num_shares * current_price
market_value(num_shares, current_price) == FMul(num_shares, current_price)

\* -(gain / cost_basis), rounded to 4 decimals by the applymap that follows.
gain_perc(gain, cost_basis) == FNeg(FDiv4(gain, MILLI, cost_basis, UNIT))

\* One row of Portfolio._update_snapshot.
Position(trades, symbol, current_prices) ==
  LET num_shares == Num(SumSeq(Column(trades, symbol, "quantity")))
      cost_basis == Num(SumSeq(Column(trades, symbol, "amount")))
      summed_days == Num(SumSeq(Column(trades, symbol, "amount_holding_period_days")))
      current_price == IF symbol \in DOMAIN current_prices
                       THEN current_prices[symbol] ELSE NaN
      mv == market_value(num_shares, current_price)
      gain == FAdd(Num(cost_basis.v * MILLI), mv)
      wtd_holding_days == FNeg(summed_days)
  IN applymap_round(
       [num_shares |-> num_shares,
        cost_basis |-> cost_basis,
        wtd_holding_days |-> wtd_holding_days,
        ltcg_shares |-> Num(SumSeq(Column(trades, symbol, "ltcg_shares"))),
        ltcg_cost |-> Num(SumSeq(Column(trades, symbol, "ltcg_cost"))),
        current_price |-> current_price,
        market_value |-> mv,
        gain |-> gain,
        gain_perc |-> gain_perc(gain, cost_basis),
        wtd_avg_holding_period_days |->
          FNeg(FDiv4(wtd_holding_days, UNIT, cost_basis, UNIT))], 4)

\* Portfolio._update_snapshot: self._positions, one row per traded symbol.
update_snapshot(trades, current_prices) ==
  [sym \in {trades[i].symbol : i \in 1..Len(trades)} |->
     Position(trades, sym, current_prices)]

\* Portfolio.snapshot: the rows rounded to 2 decimals, then those with
\* abs(num_shares) >= 1.
snapshot(positions) ==
  LET rounded == [sym \in DOMAIN positions |-> applymap_round(positions[sym], 2)]
      kept == {sym \in DOMAIN rounded : Abs(rounded[sym].num_shares.v) >= 1 * MILLI}
  IN [sym \in kept |-> rounded[sym]]

\* ------------------------------------------------------------ lot queries
\* The `symbols` argument of get_upcoming_ltcg_lots by its Python shape:
\* None, a str, a list, a set, or an object of another type (an int).
\* `truthy` is what `if symbols:` sees.
Filters ==
  {[shape |-> "none", truthy |-> FALSE, syms |-> {}],
   [shape |-> "str", truthy |-> TRUE, syms |-> {"ABC"}],
   [shape |-> "list", truthy |-> TRUE, syms |-> {"ABC", "XYZ"}],
   [shape |-> "set", truthy |-> TRUE, syms |-> {"XYZ"}],
   [shape |-> "int", truthy |-> TRUE, syms |-> {}]}

\* Portfolio.get_upcoming_ltcg_lots: the error raised ("" for none) and the
\* lots returned.  self._active_symbols is assigned nowhere in the class,
\* so reading it raises AttributeError.
get_upcoming_ltcg_lots(obj, days, filter) ==
  LET lots == SelectSeq(obj.stcg_lots,
                        LAMBDA t : t.holding_period_days > DAYS_IN_A_YEAR - days)
      filtered == IF ~filter.truthy THEN lots
                  ELSE SelectSeq(lots, LAMBDA t : t.symbol \in filter.syms)
  IN IF filter.truthy /\ filter.shape \notin {"str", "list"}
     THEN [err |-> "TypeError", value |-> <<>>]
     ELSE IF "_active_symbols" \notin obj.attrs
          THEN [err |-> "AttributeError", value |-> <<>>]
     ELSE [err |-> "",
           value |-> SelectSeq(filtered, LAMBDA t : t.symbol \in obj.active_symbols)]

\* ------------------------------------------------------------------ inputs
\* Standardized transactions handed to Portfolio(...): quantity in
\* thousandths of a share, price and amount in whole currency units.
Buy10 == [date |-> 0, symbol |-> "ABC", quantity |-> 10000, price |-> 100,
          amount |-> 0 - 1000]
BuyDust == [date |-> 35, symbol |-> "ABC", quantity |-> 996, price |-> 100,
            amount |-> 0 - 100]
BuyLate == [date |-> 400, symbol |-> "XYZ", quantity |-> 5000, price |-> 50,
            amount |-> 0 - 250]
TradePool == {Buy10, BuyDust, BuyLate}

\* The ledgers handed to Portfolio(...): none, one transaction, or two
\* of one symbol listed out of date order.
Ledgers == {<<>>} \cup {<<t>> : t \in TradePool} \cup {<<BuyDust, Buy10>>}

\* The ledgers of the portfolio handed to combine().
OtherLedgers == {<<Buy10>>, <<BuyLate>>}

\* price_data=None, or a table the caller downloaded earlier.
PriceInputs == {NoTable, yf_download({"ABC"}, 0, FirstToday + 1)}

\* as_of_date=None, or an explicit date.
AsOfArgs == {NoDate, FirstToday - 1}

\* ------------------------------------------------------------------- state
\* A Portfolio object; NoPortfolio is a name not bound to one.  `attrs` are
\* the instance attributes the class assigns.
NoPortfolio ==
  [exists |-> FALSE, attrs |-> {}, trades |-> <<>>, as_of_date |-> NoDate,
   ltcg_lots |-> <<>>, stcg_lots |-> <<>>, symbols |-> {},
   current_prices |-> <<>>, positions |-> <<>>, active_symbols |-> {}]

InstanceAttrs == {"_trades", "as_of_date", "_ltcg_lots", "_stcg_lots", "symbols",
                  "tickers", "prices", "volumes", "current_prices", "_positions"}

\* What the last query returned: the error raised ("" for none) and the value.
NoFilter == [shape |-> "", truthy |-> FALSE, syms |-> {}]
NoRet == [op |-> "", filter |-> NoFilter, err |-> "", value |-> <<>>]

Init ==
  /\ portfolio_price_data = NoTable
  /\ pf = [s \in Slots |-> NoPortfolio]
  /\ today = FirstToday
  /\ ret = NoRet

\* The pipeline shared by __init__ and combine, on the object `obj` whose
\* _trades and as_of_date are already assigned: _process_trades,
\* update_price_data, _assign_price_data, _update_snapshot.  An error ends
\* the pipeline where it is raised; what was assigned before stays.
Pipeline(obj, cache, now, okFetches) ==
  LET pt == process_trades(obj.trades, obj.as_of_date)
      obj1 == [obj EXCEPT !.trades = pt.trades, !.ltcg_lots = pt.ltcg_lots,
                          !.stcg_lots = pt.stcg_lots, !.symbols = pt.symbols]
      up == update_price_data(cache, pt.symbols, now, okFetches)
      ap == assign_price_data(up.cache, pt.symbols, obj.as_of_date)
  IN IF up.err # "" THEN [err |-> up.err, obj |-> obj1, cache |-> up.cache]
     ELSE IF ap.err # "" THEN [err |-> ap.err, obj |-> obj1, cache |-> up.cache]
     ELSE [err |-> "",
           obj |-> [obj1 EXCEPT !.current_prices = ap.current_prices,
                                !.positions =
                                  update_snapshot(pt.trades, ap.current_prices)],
           cache |-> up.cache]

\* Portfolio.__init__ up to the pipeline: price_data is merged into the
\* class-wide cache first, then _trades and as_of_date are assigned.
init_run(trades, price_data, as_of_date, okFetches) ==
  LET cache0 == IF ~price_data.present THEN portfolio_price_data
                ELSE IF portfolio_price_data.present
                     THEN combine_first(portfolio_price_data, price_data)
                ELSE price_data
      obj == [NoPortfolio EXCEPT !.exists = TRUE, !.attrs = InstanceAttrs,
                                 !.trades = trades,
                                 !.as_of_date = IF as_of_date # NoDate
                                                THEN as_of_date ELSE today]
  IN Pipeline(obj, cache0, today, okFetches)

\* p = Portfolio(trades, price_data, as_of_date).  When __init__ raises, no
\* object is returned and the name keeps what it was bound to; the class
\* attribute portfolio_price_data keeps what was assigned to it.
Construct(p, trades, price_data, as_of_date, okFetches) ==
  \E run \in {init_run(trades, price_data, as_of_date, okFetches)} :
     /\ portfolio_price_data' = run.cache
     /\ pf' = IF run.err = "" THEN [pf EXCEPT ![p] = run.obj] ELSE pf
     /\ ret' = NoRet
     /\ UNCHANGED today

\* The as-of date combine() assigns.
combine_as_of_date(self, new_portfolio, as_of_date) ==
  IF as_of_date # NoDate THEN self.as_of_date
  ELSE Min(self.as_of_date, new_portfolio.as_of_date)

\* Portfolio.combine on pf[p] with new_portfolio = pf[q].
combine_run(p, q, as_of_date, okFetches) ==
  LET obj == [pf[p] EXCEPT
                !.trades = pf[p].trades \o pf[q].trades,
                !.as_of_date = combine_as_of_date(pf[p], pf[q], as_of_date)]
  IN Pipeline(obj, portfolio_price_data, today, okFetches)

\* pf[p].combine(pf[q], as_of_date)
Combine(p, q, as_of_date, okFetches) ==
  /\ p # q
  /\ pf[p].exists /\ pf[q].exists
  /\ Len(pf[p].trades) + Len(pf[q].trades) <= MaxLedger
  /\ \E run \in {combine_run(p, q, as_of_date, okFetches)} :
        /\ portfolio_price_data' = run.cache
        /\ pf' = [pf EXCEPT ![p] = run.obj]
  /\ ret' = NoRet
  /\ UNCHANGED today

\* pf[p].snapshot
Snapshot(p) ==
  /\ pf[p].exists
  /\ LET positions == update_snapshot(pf[p].trades, pf[p].current_prices)
     IN /\ pf' = [pf EXCEPT ![p].positions = positions]
        /\ ret' = [op |-> "snapshot", filter |-> NoFilter, err |-> "",
                   value |-> snapshot(positions)]
  /\ UNCHANGED <<portfolio_price_data, today>>

\* pf[p].get_upcoming_ltcg_lots(days, symbols)
GetUpcomingLtcgLots(p, days, filter) ==
  /\ pf[p].exists
  /\ LET r == get_upcoming_ltcg_lots(pf[p], days, filter)
     IN ret' = [op |-> "get_upcoming_ltcg_lots", filter |-> filter,
                err |-> r.err, value |-> r.value]
  /\ UNCHANGED <<portfolio_price_data, pf, today>>

\* pd.Timestamp.now() moves to the next day.
AdvanceDay ==
  /\ today < FirstToday + MaxTicks
  /\ today' = today + 1
  /\ ret' = NoRet
  /\ UNCHANGED <<portfolio_price_data, pf>>

\* Portfolio p is constructed, portfolio q is constructed and combined
\* into p, as the days pass.
Next ==
  \/ \E trades \in Ledgers, price_data \in PriceInputs,
        as_of_date \in AsOfArgs, okFetches \in 0..2 :
        Construct("p", trades, price_data, as_of_date, okFetches)
  \/ \E trades \in OtherLedgers, as_of_date \in AsOfArgs, okFetches \in 0..2 :
        Construct("q", trades, NoTable, as_of_date, okFetches)
  \/ \E as_of_date \in AsOfArgs, okFetches \in 0..2 :
        Combine("p", "q", as_of_date, okFetches)
  \/ AdvanceDay

Spec == Init /\ [][Next]_vars

\* One portfolio is constructed and queried.
NextQuery ==
  \/ \E trades \in Ledgers, price_data \in PriceInputs,
        as_of_date \in AsOfArgs, okFetches \in 0..2 :
        Construct("p", trades, price_data, as_of_date, okFetches)
  \/ Snapshot("p")
  \/ \E filter \in Filters : GetUpcomingLtcgLots("p", DefaultDays, filter)
  \/ AdvanceDay

SpecQuery == Init /\ [][NextQuery]_vars

\* ------------------------------------------------------------------ claims

\* C1: Construct and Combine are atomic: when a stage of the pipeline fails,
\* the portfolio's state (ledger, as-of date, lot partitions, positions) is
\* what it was before the call, and a failed Construct leaves no portfolio
\* state changed.
C1_AtomicOnFailure ==
  [][pf' # pf =>
       /\ \A p \in Slots, q \in Slots, a \in AsOfArgs, k \in 0..2 :
            ~(/\ p # q /\ pf[p].exists /\ pf[q].exists
              /\ combine_run(p, q, a, k).err # ""
              /\ Combine(p, q, a, k))
       /\ \A p \in Slots, trades \in Ledgers, price_data \in PriceInputs,
             a \in AsOfArgs, k \in 0..2 :
            ~(/\ init_run(trades, price_data, a, k).err # ""
              /\ Construct(p, trades, price_data, a, k))]_vars

\* C2: after a successful Combine(other, as_of_date) the portfolio's as-of
\* date is the given as_of_date when one is passed, and otherwise the
\* minimum of the two portfolios' as-of dates.
C2_CombineAsOfDate ==
  [][\A p \in Slots, q \in Slots, a \in AsOfArgs, k \in 0..2 :
       (/\ p # q /\ pf[p].exists /\ pf[q].exists
        /\ combine_run(p, q, a, k).err = ""
        /\ Combine(p, q, a, k))
       => pf'[p].as_of_date = IF a # NoDate THEN a
                              ELSE Min(pf[p].as_of_date, pf[q].as_of_date)]_vars

\* C3: a ledger with a transaction dated after the as-of date is refused,
\* so no derived transaction of any portfolio has a negative
\* holding_period_days.
C3_NoNegativeHoldingPeriod ==
  \A p \in Slots :
    \A i \in 1..Len(pf[p].trades) : pf[p].trades[i].holding_period_days >= 0

\* C4: a Portfolio constructed with no price_data while the cache is empty
\* gets no max cached date from the refresh, has the history of all its
\* symbols fetched and, the fetch succeeding, is constructed, the cache
\* holding its symbols.
C4_ConstructOnEmptyCache ==
  [][~portfolio_price_data.present =>
       \A p \in Slots, trades \in Ledgers \ {<<>>}, a \in AsOfArgs :
         Construct(p, trades, NoTable, a, 2) =>
           LET syms == {trades[i].symbol : i \in 1..Len(trades)}
               params == get_download_params(portfolio_price_data, syms)
           IN /\ params.max_available_date = NoDate
              /\ params.missing = syms
              /\ syms \subseteq Tickers(portfolio_price_data')
              /\ init_run(trades, NoTable, a, 2).err = ""
              /\ pf'[p].exists]_vars

\* C5: the price cache loses no data: every (date, symbol) cell that holds a
\* value before a step is still there after it, with that value, also when
\* two dates or two columns carry identical values.
C5_CacheKeepsData ==
  [][\A key \in DOMAIN portfolio_price_data.val :
       ~isna(portfolio_price_data.val[key]) =>
         /\ key \in DOMAIN portfolio_price_data'.val
         /\ portfolio_price_data'.val[key] = portfolio_price_data.val[key]]_vars

\* The dates <= as_of_date on which `sym` has a close in the cache.
ClosesUpTo(cache, sym, as_of_date) ==
  {d \in cache.rows : /\ d <= as_of_date
                      /\ <<"Close", sym>> \in cache.cols
                      /\ ~isna(cache.val[<<d, <<"Close", sym>>>>])}

\* C6: a Construct or Combine that succeeds leaves every held symbol with a
\* close at or before the as-of date, and the current_price of its position
\* is the most recent of them, whatever later dates other symbols have.
C6_CurrentPriceIsLatestClose ==
  [][\A p \in Slots :
       (/\ pf'[p] # pf[p]
        /\ \/ \E trades \in Ledgers, price_data \in PriceInputs,
                 a \in AsOfArgs, k \in 0..2 :
                 /\ init_run(trades, price_data, a, k).err = ""
                 /\ Construct(p, trades, price_data, a, k)
           \/ \E q \in Slots \ {p}, a \in AsOfArgs, k \in 0..2 :
                 /\ pf[p].exists /\ pf[q].exists
                 /\ combine_run(p, q, a, k).err = ""
                 /\ Combine(p, q, a, k))
       => \A sym \in pf'[p].symbols :
            LET closes == ClosesUpTo(portfolio_price_data', sym, pf'[p].as_of_date)
            IN /\ closes # {}
               /\ pf'[p].positions[sym].current_price =
                    portfolio_price_data'.val[<<MaxOf(closes), <<"Close", sym>>>>]]_vars

\* C7: get_upcoming_ltcg_lots(within_days, symbols) returns the short-term
\* lots whose holding_period_days exceeds 365.25 - within_days, restricted
\* to the symbol or the collection of symbols given, and fails with a type
\* error for a filter of any other shape.
C7_UpcomingLtcgLots ==
  ret.op = "get_upcoming_ltcg_lots" =>
    LET f == ret.filter
        due == SelectSeq(pf["p"].stcg_lots,
                         LAMBDA t : 4 * t.holding_period_days
                                      > 4 * 365 + 1 - 4 * DefaultDays)
    IN IF f.shape = "none"
       THEN ret.err = "" /\ ret.value = due
       ELSE IF f.shape \in {"str", "list", "set"}
       THEN ret.err = "" /\ ret.value = SelectSeq(due, LAMBDA t : t.symbol \in f.syms)
       ELSE ret.err = "TypeError"

\* C8: ltcg_flag is 1 exactly when the whole-day holding period exceeds
\* 365.25 days, and the long-term and short-term lots are exactly the
\* transactions flagged 1 and 0: every transaction is in exactly one.
C8_LtcgFlagAndPartition ==
  \A p \in Slots :
    LET obj == pf[p]
    IN /\ \A i \in 1..Len(obj.trades) :
            LET t == obj.trades[i]
            IN /\ t.holding_period_days = obj.as_of_date - t.date
               /\ t.ltcg_flag = IF 4 * t.holding_period_days > 4 * 365 + 1 THEN 1 ELSE 0
       /\ obj.ltcg_lots = SelectSeq(obj.trades, LAMBDA t : t.ltcg_flag = 1)
       /\ obj.stcg_lots = SelectSeq(obj.trades, LAMBDA t : t.ltcg_flag = 0)
       /\ Len(obj.ltcg_lots) + Len(obj.stcg_lots) = Len(obj.trades)

\* A portfolio holding a lot exactly 365 days old, which is short-term,
\* beside a long-term lot.
C8_Witness ==
  \E p \in Slots :
    /\ pf[p].exists
    /\ \E i \in 1..Len(pf[p].stcg_lots) : pf[p].stcg_lots[i].holding_period_days = 365
    /\ pf[p].ltcg_lots # <<>>

\* The true share count of `sym`: the unrounded sum of its quantities.
TrueShares(obj, sym) == SumSeq(Column(obj.trades, sym, "quantity"))

\* C9: the public snapshot holds a symbol's position iff the absolute value
\* of its true, unrounded share count is at least 1.
C9_SnapshotFilterOnTrueShares ==
  ret.op = "snapshot" =>
    \A sym \in pf["p"].symbols :
      sym \in DOMAIN ret.value <=> Abs(TrueShares(pf["p"], sym)) >= 1 * MILLI

\* The scenario of C10: the ledger is one BUY of 10 ABC at 100 on day 0 for
\* -1000, the as-of date is day 400, and the current price of ABC is 120.
IsScenario(obj) ==
  /\ obj.exists
  /\ Len(obj.trades) = 1
  /\ [f \in DOMAIN Buy10 |-> obj.trades[1][f]] = Buy10
  /\ obj.as_of_date = 400
  /\ "ABC" \in DOMAIN obj.current_prices
  /\ obj.current_prices["ABC"] = Num(120)

ScenarioBut(obj, gain_perc_value) ==
  LET t == obj.trades[1]
      pos == obj.positions["ABC"]
  IN /\ t.holding_period_days = 400
     /\ t.ltcg_flag = 1
     /\ t.ltcg_shares = 10 * MILLI
     /\ t.ltcg_cost = 1000 * MILLI
     /\ pos.num_shares = Num(10 * MILLI)
     /\ pos.cost_basis = Num(0 - 1000)
     /\ pos.market_value = Num(1200 * MILLI)
     /\ pos.gain = Num(200 * MILLI)
     /\ pos.gain_perc = Num(gain_perc_value)

\* C10 as stated: in the scenario the derived transaction has
\* holding_period_days=400, ltcg_flag=1, ltcg_shares=10, ltcg_cost=1000 and
\* the position num_shares=10, cost_basis=-1000, market_value=1200,
\* gain=200, gain_perc=-0.2.
C10_ScenarioAsStated ==
  \A p \in Slots : IsScenario(pf[p]) => ScenarioBut(pf[p], 0 - (2 * RATIO) \div 10)

\* C10 amended: the same, with gain_perc = 0.2 (-(200 / -1000)).
C10_ScenarioGainPercPositive ==
  \A p \in Slots : IsScenario(pf[p]) => ScenarioBut(pf[p], (2 * RATIO) \div 10)

\* A portfolio in the scenario of C10.
C10_Witness == \E p \in Slots : IsScenario(pf[p])

\* The last row of `symbol` in the processed ledger, which is kept in
\* (symbol, date ascending, ledger order on ties) order.
LastRow(trades, symbol) ==
  LET rows == SelectSeq(trades, LAMBDA t : t.symbol = symbol)
  IN rows[Len(rows)]

\* C11: after any sequence of Construct and Combine operations, for every
\* symbol in the ledger the cum_quantity of that symbol's last transaction
\* equals the num_shares of that symbol's aggregated position.
C11_CumQuantityIsNumShares ==
  \A p \in Slots :
    pf[p].exists =>
      \A sym \in {pf[p].trades[i].symbol : i \in 1..Len(pf[p].trades)} :
        /\ sym \in DOMAIN pf[p].positions
        /\ pf[p].positions[sym].num_shares =
             Num(LastRow(pf[p].trades, sym).cum_quantity)
====
